---- MODULE Spec2Model ----
(***************************************************************************)
(* Model of the asynchronous evaluation pipeline of ai-job-reviewer:       *)
(* POST /evaluate (job row + BullMQ task), the BullMQ worker processor,    *)
(* EvaluationService.evaluateCandidate with its stages, the Job Store      *)
(* writes (updateJobStatus, saveEvaluationResults) and GET /result/:jobId. *)
(*                                                                         *)
(* Strings are modelled as sequences of fragments; a fragment is either    *)
(* one of the key words the worker searches for with String.includes or a  *)
(* piece of text that contains none of them, so that includes() is         *)
(* membership of the key word among the fragments and template literals    *)
(* are concatenation.  Numbers returned by the model are in tenths         *)
(* (cvMatchRate 5 is 0.5, projectScore 40 is 4.0).                         *)
(***************************************************************************)
EXTENDS Integers, Sequences, FiniteSets, TLC

VARIABLES
  evaluationJob,     \* prisma.evaluationJob: job id -> row
  jobCount,          \* number of job ids prisma has issued
  evaluationResult,  \* prisma.evaluationResult: job id -> row (jobId is unique)
  waiting,           \* BullMQ wait list: job ids, oldest first
  delayed,           \* BullMQ delayed set: tasks in their backoff delay
  attemptsMade,      \* BullMQ attemptsMade of each task
  completedTasks,    \* BullMQ completed set
  failedTasks,       \* BullMQ failed set: tasks whose attempts are exhausted
  pc,                \* position of the single worker (concurrency: 1)
  active,            \* job id of the task the worker is processing, 0 if none
  isInitialized,     \* evaluation-worker.ts module flag
  collection,        \* ChromaDB collection: the ingested reference documents
  startup,           \* position of startWorker (worker.ts)
  ingestIndex,       \* startWorker: documents of DocumentsDir gone through
  jobDocuments,      \* local of evaluateCandidate: the documents retrieved
  relevantJob,       \* local of retrieveJobDocuments
  cvEvaluation,      \* local of evaluateCandidate
  projectEvaluation, \* local of evaluateCandidate
  error,             \* the error caught by the catch block being run
  response,          \* body of the GET /result/:jobId answer this step sent, if any
  invocations,       \* history: calls of evaluateCandidate per job
  resultCreates,     \* history: evaluationResult rows created per job
  gatewayCalls,      \* history: LLMService calls made by the running attempt
  ingestFaults,      \* history: documents ingestDocument skipped on an error
  dbFaults,          \* history: status writes that prisma failed and the code swallowed
  documents,         \* prisma.document: id of an uploaded PDF -> row
  jobData,           \* BullMQ task data: job id -> the request it was made from
  reply,             \* the last answer POST /evaluate sent, with its request
  crashes,           \* history: deaths of the worker process while it held a task
  internalDocuments, \* the PDF files under INTERNAL_DOCUMENTS_DIR
  retryDelay,        \* BullMQ: the delay, in ms, of each task's last retry
  prompt             \* the last generateContent request of the running attempt

vars == <<evaluationJob, jobCount, evaluationResult, waiting, delayed,
          attemptsMade, completedTasks, failedTasks, pc, active, isInitialized,
          collection, startup, ingestIndex, jobDocuments, relevantJob,
          cvEvaluation, projectEvaluation, error, response,
          invocations, resultCreates, gatewayCalls, ingestFaults, dbFaults,
          documents, jobData, reply, crashes, internalDocuments, retryDelay,
          prompt>>

(* ---------------------------------------------------------------- bounds *)
MaxJobs == 2
\* status writes that fail in one run
MaxDbFaults == 1
\* documents that fail to ingest in one run of startWorker
MaxIngestFaults == 1
\* jobs submitted while the worker process starts
MaxStartupJobs == 1
\* deaths of the worker process in one run
MaxCrashes == 1
\* jobs submitted to a worker process that may die
MaxCrashJobs == 1

JobIds == 1..MaxJobs

(* ------------------------------------------------------------- constants *)
ATTEMPTS_RETRY == 3

\* backoff.delay of the tasks, in ms
EXPONENTIAL_BACKOFF_DELAY == 5000

\* the number of characters below which the design calls a PDF's text
\* insufficient
MIN_TEXT_LENGTH == 100

QUEUED == "QUEUED"
PROCESSING == "PROCESSING"
COMPLETED == "COMPLETED"
FAILED == "FAILED"

JobStatus == {QUEUED, PROCESSING, COMPLETED, FAILED}

(* --------------------------------------------------------------- strings *)
Includes(message, keyword) == \E i \in DOMAIN message : message[i] = keyword

Null == [isNull |-> TRUE, text |-> <<>>]
Str(text) == [isNull |-> FALSE, text |-> text]

\* errorMessage || null: the empty string is falsy
OrNull(value) == IF value.isNull \/ Len(value.text) = 0 THEN Null ELSE value

(* ---------------------------------------------------------------- errors *)
Err(message) == [isError |-> TRUE, message |-> message]

NoError == [isError |-> FALSE, message |-> <<>>]

\* what the external services (Gemini client, ChromaDB, prisma, pdfjs) may throw
TimeoutError == Err(<<"Request ", "timeout">>)
EmptyMessageError == Err(<<>>)
ThrownValue == [isError |-> FALSE, message |-> <<"thrown value">>]

RawErrors == {TimeoutError, EmptyMessageError, ThrownValue}

\* the failures drawn where the caller wraps the error into a new message
WrappedErrors == {TimeoutError}

\* `${error instanceof Error ? error.message : error}` after a prefix
Wrap(prefix, e) == Err(<<prefix>> \o e.message)

(* ------------------------------------------------- Model Gateway values *)
\* a JSON number of the parsed response, or the field is absent (undefined)
Num(v) == [kind |-> "number", value |-> v]
Undefined == [kind |-> "undefined", value |-> 0]

\* cvMatchRate values the model may return, in tenths; the schema says 0..1
CvMatchRates == {5, 12}
\* projectScore values the model may return, in tenths; the schema says 1..5
ProjectScores == {40, 70}

CvEvaluationResponses == {Num(v) : v \in CvMatchRates} \cup {Undefined}
ProjectEvaluationResponses == {Num(v) : v \in ProjectScores} \cup {Undefined}

(* ------------------------------------------------------------- Job Store *)
\* the row as it would be if the route stored the job as already started
NewJobProcessing == [status |-> PROCESSING, errorMessage |-> Null, retryCount |-> 0]

NewJob == [status |-> QUEUED, errorMessage |-> Null, retryCount |-> 0]

\* updateJobStatus as it would be with an upsert: a missing row is created
UpdateJobStatusUpsert(jobId, status, errorMessage, dbOk) ==
  IF dbOk
  THEN (jobId :> [status |-> status, errorMessage |-> OrNull(errorMessage),
                  retryCount |-> 0]) @@ evaluationJob
  ELSE evaluationJob

\* updateJobStatus as it would be without the where clause: every row is set
UpdateJobStatusOfAll(jobId, status, errorMessage, dbOk) ==
  IF dbOk /\ jobId \in DOMAIN evaluationJob
  THEN [j \in DOMAIN evaluationJob |->
          [evaluationJob[j] EXCEPT !.status = status,
                                   !.errorMessage = OrNull(errorMessage)]]
  ELSE evaluationJob

\* updateJobStatus as it would be if it left out an errorMessage it is not given
UpdateJobStatusKeepsMessage(jobId, status, errorMessage, dbOk) ==
  IF dbOk /\ jobId \in DOMAIN evaluationJob
  THEN [evaluationJob EXCEPT
          ![jobId].status = status,
          ![jobId].errorMessage =
            IF errorMessage = Null THEN @ ELSE OrNull(errorMessage)]
  ELSE evaluationJob

\* EvaluationService.updateJobStatus: the update of status, errorMessage and
\* updatedAt; a missing row and any other prisma error are logged and swallowed
UpdateJobStatus(jobId, status, errorMessage, dbOk) ==
  IF dbOk /\ jobId \in DOMAIN evaluationJob
  THEN [evaluationJob EXCEPT ![jobId].status = status,
                             ![jobId].errorMessage = OrNull(errorMessage)]
  ELSE evaluationJob

\* a call of updateJobStatus; dbOk tells whether prisma did the update
WriteStatus(jobId, status, errorMessage, dbOk) ==
  /\ evaluationJob' = UpdateJobStatus(jobId, status, errorMessage, dbOk)
  /\ dbFaults' = IF dbOk THEN dbFaults ELSE dbFaults + 1

\* the outcomes of a status write the environment may still produce
DbOutcomes == IF dbFaults < MaxDbFaults THEN BOOLEAN ELSE {TRUE}

\* the message evaluateCandidate's catch block passes to updateJobStatus
CatchMessage(e) == IF e.isError THEN Str(e.message) ELSE Str(<<"Unknown error">>)

(* ---------------------------------------------------------------- worker *)
\* the processor's catch block: the message of the Error it throws to BullMQ
UserMessage(e) ==
  IF ~e.isError THEN <<"Evaluation failed">>
  ELSE IF Includes(e.message, "timeout")
    THEN <<"Evaluation timed out. Please try again.">>
  ELSE IF Includes(e.message, "quota") \/ Includes(e.message, "rate limit")
    THEN <<"API rate limit reached. Please try again later.">>
  ELSE IF Includes(e.message, "overloaded")
    THEN <<"Model is currently overloaded. Please try again later.">>
  ELSE IF Includes(e.message, "not found")
    THEN <<"Document or job configuration ", "not found", ": ">> \o e.message
  ELSE IF Includes(e.message, "empty") \/ Includes(e.message, "too short")
    THEN <<"Invalid document: ">> \o e.message
  ELSE e.message

(* -------------------------------------------------------- Document Store *)
\* the normalized job titles of the deployment, as sequences of words and
\* separators
BackendEngineer == <<"backend", "_", "engineer">>
DataEngineer == <<"data", "_", "engineer">>

JobTitles == {BackendEngineer, DataEngineer}

DocumentTypes == {"job_description", "scoring_rubric", "case_study_brief"}

\* /[\s_-]+/
Separators == {" ", "_", "-"}

\* String.toLowerCase on a word of a directory name
ToLowerCase(word) ==
  CASE word = "Backend" -> "backend"
    [] word = "Engineer" -> "engineer"
    [] word = "Data" -> "data"
    [] OTHER -> word

\* jobTitle.toLowerCase().replace(/[\s_-]+/g, "_"): every run of separators
\* becomes one underscore
RECURSIVE NormalizeJobTitle(_)
NormalizeJobTitle(jobTitle) ==
  IF jobTitle = << >> THEN << >>
  ELSE IF Head(jobTitle) \in Separators
  THEN IF Len(jobTitle) > 1 /\ jobTitle[2] \in Separators
       THEN NormalizeJobTitle(Tail(jobTitle))
       ELSE <<"_">> \o NormalizeJobTitle(Tail(jobTitle))
  ELSE <<ToLowerCase(Head(jobTitle))>> \o NormalizeJobTitle(Tail(jobTitle))

\* a PDF file of a job title directory; the file name is a sequence of
\* fragments, as the messages are
File(directory, filename) == [directory |-> directory, filename |-> filename]

\* the document type ingestDocument reads from the file name
DocumentTypeOf(filename) ==
  IF Includes(filename, "job_description") THEN "job_description"
  ELSE IF Includes(filename, "case_study_brief") THEN "case_study_brief"
  ELSE IF Includes(filename, "scoring_rubric") THEN "scoring_rubric"
  ELSE "unknown"

\* the id as it would be if it were made of the directory name as it is
DocumentIdOfDirectory(jobTitle, documentType) == <<jobTitle, documentType>>

\* `${this.normalizeJobTitle(jobTitle)}_${documentType}`
DocumentId(jobTitle, documentType) ==
  <<NormalizeJobTitle(jobTitle), documentType>>

\* the record collection.add is called with for a file: id and metadata
Record(file) ==
  [id |-> DocumentId(file.directory, DocumentTypeOf(file.filename)),
   jobTitle |-> NormalizeJobTitle(file.directory),
   documentType |-> DocumentTypeOf(file.filename),
   filename |-> file.filename]

\* collection.add: a record whose id the collection holds already is not
\* added
CollectionAdd(records, record) ==
  IF \E d \in records : d.id = record.id THEN records
  ELSE records \cup {record}

\* the three PDF files of a job title directory, in the order of fs.readdir
FilesOf(directory) ==
  <<File(directory, <<"case_study_brief", ".pdf">>),
    File(directory, <<"job_description", ".pdf">>),
    File(directory, <<"scoring_rubric", ".pdf">>)>>

\* the PDF files under INTERNAL_DOCUMENTS_DIR, in the order of fs.readdir
DocumentsDir == FilesOf(BackendEngineer) \o FilesOf(DataEngineer)

\* directory trees in which two files get the same normalized job title and
\* document type: two directories whose names differ in case and separator,
\* and a directory with two job descriptions and a file of no known type
DuplicatesDirs ==
  {<<File(<<"Backend", " ", "Engineer">>, <<"job_description", ".pdf">>)>>
     \o FilesOf(BackendEngineer),
   <<File(<<"backend", "-", "_", "engineer">>, <<"job_description", ".pdf">>),
     File(<<"backend", "-", "_", "engineer">>, <<"job_description", "_v2", ".pdf">>),
     File(<<"backend", "-", "_", "engineer">>, <<"notes", ".pdf">>)>>}

\* the collection of a deployment that ingested the documents of its one job
\* title directory and has skipped ingestion (hasDocuments) ever since
IngestedCollection ==
  {Record(DocumentsDir[i]) :
     i \in {k \in DOMAIN DocumentsDir :
              NormalizeJobTitle(DocumentsDir[k].directory) = BackendEngineer}}

\* the lookup as it would be without the where filter on the job title
FindJobDocumentByType(jobTitle, documentType) ==
  {d \in collection : d.documentType = documentType}

\* collection.get({where: {jobTitle: {$eq: jobTitle}}}), then
\* metadatas.findIndex(meta.documentType === documentType)
FindJobDocument(jobTitle, documentType) ==
  {d \in collection : d.jobTitle = jobTitle /\ d.documentType = documentType}

\* the check as it would be if findIndex's -1 were not tested
MissingTypesUnchecked(jobTitle) == {}

\* the document types searchJobDocument does not find for a job title
MissingTypes(jobTitle) ==
  {type \in DocumentTypes : FindJobDocument(jobTitle, type) = {}}

\* no job title resolved yet
NoJob == << >>

(* ------------------------------------------------------- uploaded PDFs *)
\* the ids POST /upload has issued for the candidate's CV and project report
UploadedDocuments ==
  [id \in {"cv", "report"} |-> [textLength |-> 900]]

\* what prisma.document may hold: both PDFs with their text, a CV that is a
\* scan (extractTextFromPDF returns no text, or a few characters), or the
\* CV alone, the row of the project report being gone
DocumentTables ==
  {UploadedDocuments,
   [UploadedDocuments EXCEPT !["cv"].textLength = 0],
   [UploadedDocuments EXCEPT !["cv"].textLength = 40],
   [id \in {"cv"} |-> [textLength |-> 900]]}

\* extractTextFromPDF: the length of the text of the PDF of a document row
ExtractTextFromPDF(id) == documents[id].textLength

(* -------------------------------------------------------------- requests *)
\* the body of a POST /evaluate request
Request(title, cv, report) ==
  [job_title |-> title, cv_document_id |-> cv, report_document_id |-> report]

\* the request of a client that uploaded both PDFs
UsualRequest == Request("Backend Engineer", "cv", "report")

\* the bodies clients may send: a field may be the empty string, the title
\* may be white space and an id may be one POST /upload never issued
Requests ==
  {Request(title, cv, report) :
     title \in {"", " ", "Backend Engineer"},
     cv \in {"", "cv", "unknown"},
     report \in {"", "report", "unknown"}}

\* !value of a string field of the body
Falsy(value) == value = ""

\* the validation as it would be without the lookup of the two documents
RejectionUnlessEmpty(req) ==
  IF Falsy(req.job_title) \/ Falsy(req.cv_document_id)
       \/ Falsy(req.report_document_id)
  THEN 400
  ELSE 0

\* POST /evaluate: the status code the validation rejects a request with, 0
\* when it lets the request pass
Rejection(req) ==
  IF Falsy(req.job_title) \/ Falsy(req.cv_document_id)
       \/ Falsy(req.report_document_id)
  THEN 400
  ELSE IF req.cv_document_id \notin DOMAIN documents
            \/ req.report_document_id \notin DOMAIN documents
  THEN 404
  ELSE 0

NoReply == [request |-> Request("", "", ""), code |-> 0, jobId |-> 0]

\* no generateContent request was sent yet by the running attempt
NoPrompt == [variables |-> << >>, contents |-> << >>]

(* ------------------------------------------------------------------ Init *)
NullResult == [isNull |-> TRUE, cv_match_rate |-> 0, project_score |-> 0]
NoResponse == [jobId |-> 0, status |-> "none", result |-> NullResult]

\* the state all deployments start from, apart from the Document Store
InitCore ==
  /\ evaluationJob = << >>
  /\ jobCount = 0
  /\ evaluationResult = << >>
  /\ waiting = << >>
  /\ delayed = {}
  /\ attemptsMade = [j \in JobIds |-> 0]
  /\ completedTasks = {}
  /\ failedTasks = {}
  /\ pc = "idle"
  /\ active = 0
  /\ isInitialized = FALSE
  /\ jobDocuments = {}
  /\ relevantJob = NoJob
  /\ cvEvaluation = Undefined
  /\ projectEvaluation = Undefined
  /\ error = NoError
  /\ response = NoResponse
  /\ invocations = [j \in JobIds |-> 0]
  /\ resultCreates = [j \in JobIds |-> 0]
  /\ gatewayCalls = 0
  /\ ingestFaults = 0
  /\ dbFaults = 0
  /\ jobData = << >>
  /\ reply = NoReply
  /\ crashes = 0
  /\ retryDelay = [j \in JobIds |-> 0]
  /\ prompt = NoPrompt

\* a worker whose startWorker has finished before the first submission, over
\* a collection that holds the three reference documents of a job title
Init ==
  /\ InitCore
  /\ documents = UploadedDocuments
  /\ internalDocuments = DocumentsDir
  /\ collection = IngestedCollection
  /\ startup = "done"
  /\ ingestIndex = Len(DocumentsDir)

\* a worker process that is starting: the collection is empty, or holds what
\* an earlier, interrupted run of startWorker ingested
InitStartup ==
  /\ InitCore
  /\ documents \in DocumentTables
  /\ internalDocuments = DocumentsDir
  /\ collection \in {{}, {Record(DocumentsDir[1])}}
  /\ startup = "init"
  /\ ingestIndex = 0

\* a worker process that starts over an empty collection and a directory tree
\* with files of the same normalized job title and document type
InitIngest ==
  /\ InitCore
  /\ documents = UploadedDocuments
  /\ internalDocuments \in DuplicatesDirs
  /\ collection = {}
  /\ startup = "init"
  /\ ingestIndex = 0

storeVars == <<evaluationJob, jobCount, evaluationResult>>
queueVars == <<waiting, delayed, attemptsMade, completedTasks, failedTasks>>
ragVars == <<collection, startup, ingestIndex, ingestFaults>>
docVars == <<jobDocuments, relevantJob>>
localVars == <<cvEvaluation, projectEvaluation, error>>
historyVars == <<invocations, resultCreates, dbFaults>>
envVars == <<documents, jobData, reply, crashes, internalDocuments, retryDelay>>

(* ------------------------------------------------------- POST /evaluate *)
\* the route: a request the validation rejects is answered 400 or 404 and
\* nothing is stored; otherwise prisma.evaluationJob.create with status QUEUED,
\* then evaluationQueue.add and 202; when add throws the route answers 500 and
\* the row stays
Submit(req) ==
  /\ jobCount < MaxJobs
  /\ IF Rejection(req) # 0
     THEN /\ reply' = [request |-> req, code |-> Rejection(req), jobId |-> 0]
          /\ UNCHANGED <<evaluationJob, jobCount, waiting, jobData>>
     ELSE LET jobId == jobCount + 1 IN
          /\ evaluationJob' = (jobId :> NewJob) @@ evaluationJob
          /\ jobCount' = jobId
          /\ \E enqueued \in BOOLEAN :
               IF enqueued
               THEN /\ waiting' = Append(waiting, jobId)
                    /\ jobData' = (jobId :> req) @@ jobData
                    /\ reply' = [request |-> req, code |-> 202, jobId |-> jobId]
               ELSE /\ reply' = [request |-> req, code |-> 500, jobId |-> 0]
                    /\ UNCHANGED <<waiting, jobData>>
  /\ response' = NoResponse
  /\ UNCHANGED <<evaluationResult, delayed, attemptsMade, completedTasks,
                 failedTasks, pc, active, isInitialized, ragVars, docVars,
                 localVars, historyVars, gatewayCalls, documents, crashes,
                 internalDocuments, retryDelay, prompt>>

(* --------------------------------------------------- GET /result/:jobId *)
ResultPayload(jobId) ==
  IF jobId \notin DOMAIN evaluationJob THEN NoResponse
  ELSE [jobId |-> jobId,
        status |-> evaluationJob[jobId].status,
        result |-> IF jobId \in DOMAIN evaluationResult
                   THEN [isNull |-> FALSE,
                         cv_match_rate |-> evaluationResult[jobId].cvMatchRate,
                         project_score |-> evaluationResult[jobId].projectScore]
                   ELSE NullResult]

\* the handler as it would be if it counted the polls in the job row
GetResultCountingPolls ==
  /\ \E jobId \in JobIds :
       /\ response' = ResultPayload(jobId)
       /\ evaluationJob' =
            IF jobId \in DOMAIN evaluationJob
            THEN [evaluationJob EXCEPT ![jobId].retryCount = @ + 1]
            ELSE evaluationJob
  /\ UNCHANGED <<envVars, prompt, jobCount, evaluationResult, queueVars, pc, active,
                 isInitialized, ragVars, docVars, localVars, historyVars,
                 gatewayCalls>>

GetResult ==
  /\ \E jobId \in JobIds : response' = ResultPayload(jobId)
  /\ UNCHANGED <<envVars, prompt, storeVars, queueVars, pc, active, isInitialized, ragVars,
                 docVars, localVars, historyVars, gatewayCalls>>

(* ----------------------------------------------------------- startWorker *)
\* ragService.initialize(): getOrCreateCollection
RagInitialize ==
  /\ startup = "init"
  /\ startup' = "ingest"
  /\ response' = NoResponse
  /\ UNCHANGED <<envVars, prompt, storeVars, queueVars, pc, active, isInitialized, collection,
                 ingestIndex, ingestFaults, docVars, localVars, historyVars,
                 gatewayCalls>>

\* ingestDocument: the collection after the file was gone through without an
\* error of the file system, of pdfjs or of ChromaDB; a file of no known
\* type is skipped
IngestDocument(file) ==
  IF DocumentTypeOf(file.filename) = "unknown" THEN collection
  ELSE CollectionAdd(collection, Record(file))

\* the run as it would be without the hasDocuments check: every run goes
\* through the files
IngestAllDocumentsAgain ==
  /\ startup = "ingest"
  /\ ingestIndex < Len(internalDocuments)
  /\ ingestIndex' = ingestIndex + 1
  /\ startup' = IF ingestIndex' = Len(internalDocuments)
                THEN "evaluationInit" ELSE startup
  /\ \/ /\ collection' = IngestDocument(internalDocuments[ingestIndex'])
        /\ UNCHANGED ingestFaults
     \/ /\ ingestFaults < MaxIngestFaults
        /\ ingestFaults' = ingestFaults + 1
        /\ UNCHANGED collection
  /\ response' = NoResponse
  /\ UNCHANGED <<envVars, prompt, storeVars, queueVars, pc, active, isInitialized,
                 docVars, localVars, historyVars, gatewayCalls>>

\* the run as it would be if ingestDocument threw its error again: the first
\* file that fails ends the run
IngestAllDocumentsFailFast ==
  /\ startup = "ingest"
  /\ \/ /\ ingestIndex = 0 /\ collection # {}
        /\ startup' = "evaluationInit"
        /\ UNCHANGED <<collection, ingestIndex, ingestFaults>>
     \/ /\ ingestIndex > 0 \/ collection = {}
        /\ ingestIndex < Len(internalDocuments)
        /\ ingestIndex' = ingestIndex + 1
        /\ \/ /\ collection' = IngestDocument(internalDocuments[ingestIndex'])
              /\ startup' = IF ingestIndex' = Len(internalDocuments)
                            THEN "evaluationInit" ELSE startup
              /\ UNCHANGED ingestFaults
           \/ /\ ingestFaults < MaxIngestFaults
              /\ ingestFaults' = ingestFaults + 1
              /\ startup' = "evaluationInit"
              /\ UNCHANGED collection
  /\ response' = NoResponse
  /\ UNCHANGED <<envVars, prompt, storeVars, queueVars, pc, active, isInitialized,
                 docVars, localVars, historyVars, gatewayCalls>>

\* ragService.ingestAllDocuments(): nothing is ingested when the collection
\* already holds a document; otherwise the next file is ingested, or skipped
\* when ingestDocument catches an error
IngestAllDocuments ==
  /\ startup = "ingest"
  /\ \/ /\ ingestIndex = 0 /\ collection # {}
        /\ startup' = "evaluationInit"
        /\ UNCHANGED <<collection, ingestIndex, ingestFaults>>
     \/ /\ ingestIndex > 0 \/ collection = {}
        /\ ingestIndex < Len(internalDocuments)
        /\ ingestIndex' = ingestIndex + 1
        /\ startup' = IF ingestIndex' = Len(internalDocuments)
                      THEN "evaluationInit" ELSE startup
        /\ \/ /\ collection' = IngestDocument(internalDocuments[ingestIndex'])
              /\ UNCHANGED ingestFaults
           \/ /\ ingestFaults < MaxIngestFaults
              /\ ingestFaults' = ingestFaults + 1
              /\ UNCHANGED collection
  /\ response' = NoResponse
  /\ UNCHANGED <<envVars, prompt, storeVars, queueVars, pc, active, isInitialized, docVars,
                 localVars, historyVars, gatewayCalls>>

\* evaluationService.initialize() of startWorker's own EvaluationService
StartupInitialize ==
  /\ startup = "evaluationInit"
  /\ startup' = "done"
  /\ response' = NoResponse
  /\ UNCHANGED <<envVars, prompt, storeVars, queueVars, pc, active, isInitialized, collection,
                 ingestIndex, ingestFaults, docVars, localVars, historyVars,
                 gatewayCalls>>

\* the steps of startWorker
StartWorker == RagInitialize \/ IngestAllDocuments \/ StartupInitialize

(* ------------------------------------------------- BullMQ and the worker *)
\* the dispatch as it would be with a concurrency above 1: a waiting task is
\* started while another one is in flight
DequeueConcurrent ==
  /\ Len(waiting) > 0
  /\ active' = Head(waiting)
  /\ waiting' = Tail(waiting)
  /\ pc' = "start"
  /\ response' = NoResponse
  /\ UNCHANGED <<envVars, prompt, storeVars, delayed, attemptsMade, completedTasks, failedTasks,
                 isInitialized, ragVars, docVars, localVars, historyVars,
                 gatewayCalls>>

\* the worker (concurrency: 1) takes the oldest waiting task once the task it
\* was processing has returned or thrown; it runs from the import of
\* evaluation-worker.ts on, whatever startWorker has done so far
Dequeue ==
  /\ pc = "idle"
  /\ Len(waiting) > 0
  /\ active' = Head(waiting)
  /\ waiting' = Tail(waiting)
  /\ pc' = "start"
  /\ response' = NoResponse
  /\ UNCHANGED <<envVars, prompt, storeVars, delayed, attemptsMade, completedTasks, failedTasks,
                 isInitialized, ragVars, docVars, localVars, historyVars,
                 gatewayCalls>>

\* a delayed task's backoff delay has passed
Promote ==
  /\ \E jobId \in delayed :
       /\ delayed' = delayed \ {jobId}
       /\ waiting' = Append(waiting, jobId)
  /\ response' = NoResponse
  /\ UNCHANGED <<envVars, prompt, storeVars, attemptsMade, completedTasks, failedTasks, pc,
                 active, isInitialized, ragVars, docVars, localVars,
                 historyVars, gatewayCalls>>

\* the processor as it would be if it logged a failed initialize and went on
InitializeIgnoringFailure ==
  /\ pc = "start"
  /\ pc' = "evaluate"
  /\ \/ isInitialized' = TRUE
     \/ UNCHANGED isInitialized
  /\ response' = NoResponse
  /\ UNCHANGED <<envVars, prompt, storeVars, queueVars, active, ragVars, docVars,
                 localVars, historyVars, gatewayCalls>>

\* processor: if (!isInitialized) { await evaluationService.initialize(); ... }
Initialize ==
  /\ pc = "start"
  /\ \/ /\ isInitialized
        /\ pc' = "evaluate"
        /\ UNCHANGED <<isInitialized, error>>
     \/ /\ ~isInitialized
        /\ isInitialized' = TRUE
        /\ pc' = "evaluate"
        /\ UNCHANGED error
     \/ /\ ~isInitialized
        /\ \E e \in RawErrors : error' = e
        /\ pc' = "workerCatch"
        /\ UNCHANGED isInitialized
  /\ response' = NoResponse
  /\ UNCHANGED <<envVars, prompt, storeVars, queueVars, active, ragVars, docVars, cvEvaluation,
                 projectEvaluation, historyVars, gatewayCalls>>

\* evaluateCandidate entry: updateJobStatus(jobId, PROCESSING)
EvaluateCandidate(dbOk) ==
  /\ pc = "evaluate"
  /\ WriteStatus(active, PROCESSING, Null, dbOk)
  /\ invocations' = [invocations EXCEPT ![active] = @ + 1]
  /\ pc' = "retrieve"
  /\ response' = NoResponse
  /\ UNCHANGED <<envVars, prompt, jobCount, evaluationResult, queueVars, active, isInitialized,
                 ragVars, docVars, localVars, resultCreates, gatewayCalls>>

\* a stage as it would be if its failure were recorded and the attempt went
\* on with the next stage
StageContinues(at, next, errors) ==
  /\ pc = at
  /\ pc' = next
  /\ \/ UNCHANGED error
     \/ \E e \in errors : error' = e

\* a stage of evaluateCandidate either goes on to the next one or throws into
\* the catch block of evaluateCandidate
Stage(at, next, errors) ==
  /\ pc = at
  /\ \/ /\ pc' = next
        /\ UNCHANGED error
     \/ /\ \E e \in errors : error' = e
        /\ pc' = "catch"

\* !query || query.trim().length === 0
Blank(query) == query \in {"", " "}

\* throw new Error("Search query cannot be empty")
EmptyQueryError == Err(<<"Search query cannot be ", "empty">>)

\* searchRelevantJob's own error for a store that does not answer the query
StoreUnavailable ==
  {Wrap("Failed to search relevant job: ", e) : e \in WrappedErrors}

\* retrieveJobDocuments' error for the null searchRelevantJob returned
NoRelevantJobFound == Err(<<"No relevant job found for title: ">>)

\* searchRelevantJob returned the job title `value`, or null
Returns(value) == [throws |-> FALSE, value |-> value, error |-> NoError]
Throws(e) == [throws |-> TRUE, value |-> NoJob, error |-> e]
NullJob == <<"null">>

\* the function as it would be without the validation of its input
SearchRelevantJobUnvalidated(query) ==
  {Returns(d.jobTitle) : d \in collection}
    \cup (IF collection = {} THEN {Returns(NullJob)} ELSE {})
    \cup {Throws(e) : e \in StoreUnavailable}

\* ragService.searchRelevantJob(query): what the call may return or throw; it
\* returns the job title of the nearest document of the collection
SearchRelevantJobOutcomes(query) ==
  IF Blank(query)
  THEN {Throws(EmptyQueryError)}
  ELSE {Returns(d.jobTitle) : d \in collection}
         \cup (IF collection = {} THEN {Returns(NullJob)} ELSE {})
         \cup {Throws(e) : e \in StoreUnavailable}

\* retrieveJobDocuments: searchRelevantJob(jobTitle), then
\* if (!relevantJob) throw "No relevant job found for title"
SearchRelevantJob ==
  /\ pc = "retrieve"
  /\ \E o \in SearchRelevantJobOutcomes(jobData[active].job_title) :
       IF o.throws
       THEN /\ error' = o.error
            /\ pc' = "catch"
            /\ UNCHANGED relevantJob
       ELSE IF o.value = NullJob
       THEN /\ error' = NoRelevantJobFound
            /\ pc' = "catch"
            /\ UNCHANGED relevantJob
       ELSE /\ relevantJob' = o.value
            /\ pc' = "fetch"
            /\ UNCHANGED error
  /\ response' = NoResponse
  /\ UNCHANGED <<envVars, prompt, storeVars, queueVars, active, isInitialized, ragVars,
                 jobDocuments, cvEvaluation, projectEvaluation, historyVars,
                 gatewayCalls>>

\* retrieveJobDocuments: the three searchJobDocument calls of Promise.all; the
\* first rejection is the error of the attempt
SearchJobDocuments ==
  /\ pc = "fetch"
  /\ \/ /\ MissingTypes(relevantJob) = {}
        /\ jobDocuments' = UNION {FindJobDocument(relevantJob, type) :
                                    type \in DocumentTypes}
        /\ pc' = "load"
        /\ UNCHANGED error
     \/ /\ \E kind \in MissingTypes(relevantJob) :
             error' = Err(<<"No ", kind, " found for job title: ">>)
        /\ pc' = "catch"
        /\ UNCHANGED jobDocuments
     \/ /\ \E e \in RawErrors : error' = e
        /\ pc' = "catch"
        /\ UNCHANGED jobDocuments
  /\ relevantJob' = NoJob
  /\ response' = NoResponse
  /\ UNCHANGED <<envVars, prompt, storeVars, queueVars, active, isInitialized, ragVars,
                 cvEvaluation, projectEvaluation, historyVars, gatewayCalls>>

RetrieveJobDocuments == SearchRelevantJob \/ SearchJobDocuments

\* loadCandidateDocuments: the two document rows, then extractTextFromPDF
LoadErrors == {Err(<<"Candidate documents ", "not found">>)} \cup RawErrors

LoadCandidateDocuments ==
  /\ Stage("load", "parseCV", LoadErrors)
  /\ response' = NoResponse
  /\ UNCHANGED <<envVars, prompt, storeVars, queueVars, active, isInitialized, ragVars, docVars,
                 cvEvaluation, projectEvaluation, historyVars, gatewayCalls>>

(* --------------------------------------------------------------- prompts *)
\* a prompt is a sequence of parts: text of the template, a {key} placeholder,
\* or the value buildPrompt put in the place of a placeholder
Text(text) == [kind |-> "text", value |-> text]

Slot(key) == [kind |-> "slot", value |-> key]

Value(value) == [kind |-> "value", value |-> value]

\* buildPrompt: template.replace(/{(\w+)}/g, (match, key) => variables[key] ||
\* match); a key that is absent or whose value is the empty string keeps its
\* placeholder
BuildPrompt(template, variables) ==
  [i \in DOMAIN template |->
     IF /\ template[i].kind = "slot"
        /\ template[i].value \in DOMAIN variables
        /\ variables[template[i].value] # ""
     THEN Value(variables[template[i].value])
     ELSE template[i]]

\* the templates of prompts/: the text between the placeholders is shortened
PARSE_CV ==
  <<Text("Analyze the following CV and extract structured information. CV Content:"),
    Slot("cvText")>>

EVALUATE_CV ==
  <<Text("Job Requirements:"), Slot("jobDescription"),
    Text("Evaluation Criteria:"), Slot("scoringRubric"),
    Text("Candidate CV:"), Slot("cvText"),
    Text("Provide a comprehensive assessment including:")>>

PARSE_REPORT ==
  <<Text("Given the following project report, extract and structure the key information into a JSON format")>>

EVALUATE_PROJECT ==
  <<Text("Project Brief & Requirements:"), Slot("caseStudyBrief"),
    Text("Evaluation Rubric:"), Slot("scoringRubric"),
    Text("Candidate's Project Report:"), Slot("projectReportText"),
    Text("Evaluate the project based on:")>>

FINAL_SUMMARY ==
  <<Text("CV Evaluation Results: Match Rate:"), Slot("cvMatchRate"),
    Text("/1 CV Feedback:"), Slot("cvFeedback"),
    Text("Project Evaluation Results: Project Score:"), Slot("projectScore"),
    Text("/5 Project Feedback:"), Slot("projectFeedback"),
    Text("Job Context:"), Slot("jobTitle"),
    Text("position. Provide a concise executive summary")>>

\* the text extractTextFromPDF returned for a candidate document, named by
\* the id of the document; the empty string when the PDF has no text
CandidateText(id) ==
  IF id \in DOMAIN documents /\ ExtractTextFromPDF(id) > 0 THEN id ELSE ""

\* the text of the reference document of a type that retrieveJobDocuments
\* returned, named by the type
ReferenceText(type) ==
  IF \E d \in jobDocuments : d.documentType = type THEN type ELSE ""

\* String(value) of a field of a parsed model response
String(field) ==
  IF field.kind = "number" THEN ToString(field.value) ELSE "undefined"

\* the variables and the contents of a generateContent request
PromptRequest(variables, template) ==
  [variables |-> variables, contents |-> BuildPrompt(template, variables)]

ParseCVPrompt ==
  PromptRequest([cvText |-> CandidateText(jobData[active].cv_document_id)],
                PARSE_CV)

EvaluateCVPrompt ==
  PromptRequest([cvText |-> CandidateText(jobData[active].cv_document_id),
                 scoringRubric |-> ReferenceText("scoring_rubric"),
                 jobDescription |-> ReferenceText("job_description")],
                EVALUATE_CV)

ParseProjectReportPrompt ==
  PromptRequest([projectReportText |->
                   CandidateText(jobData[active].report_document_id)],
                PARSE_REPORT)

EvaluateProjectReportPrompt ==
  PromptRequest([projectReportText |->
                   CandidateText(jobData[active].report_document_id),
                 scoringRubric |-> ReferenceText("scoring_rubric"),
                 caseStudyBrief |-> ReferenceText("case_study_brief")],
                EVALUATE_PROJECT)

\* the request as it would be if the summary were given the documents again
GenerateFinalSummaryWithDocuments ==
  PromptRequest([cvMatchRate |-> String(cvEvaluation),
                 cvFeedback |-> "cvFeedback",
                 projectScore |-> String(projectEvaluation),
                 projectFeedback |-> "projectFeedback",
                 jobTitle |-> jobData[active].job_title,
                 cvText |-> CandidateText(jobData[active].cv_document_id),
                 jobDescription |-> ReferenceText("job_description")],
                FINAL_SUMMARY \o <<Slot("cvText"), Slot("jobDescription")>>)

\* generateFinalSummary(String(cvMatchRate), cvFeedback, String(projectScore),
\* projectFeedback, jobTitle); the two feedback texts are named by their key
GenerateFinalSummaryPrompt ==
  PromptRequest([cvMatchRate |-> String(cvEvaluation),
                 cvFeedback |-> "cvFeedback",
                 projectScore |-> String(projectEvaluation),
                 projectFeedback |-> "projectFeedback",
                 jobTitle |-> jobData[active].job_title],
                FINAL_SUMMARY)

\* what a generateContent call of LLMService adds to the errors of its caller:
\* the client throws, or the response has no text
GatewayErrors(raw, noResponse) == raw \cup {Err(<<noResponse>>)}

\* JSON.parse(response.text) on a text that is no JSON
JsonSyntaxError == Err(<<"Unexpected token in JSON">>)

\* processCV's catch block
ProcessCVErrors(errors) == {Wrap("Failed to process CV: ", e) : e \in errors}

\* processProject's catch block
ProcessProjectErrors(errors) ==
  {Wrap("Failed to process project: ", e) : e \in errors}

\* a call of ai.models.generateContent that is answered, with a text or an error
GatewayCall(request) ==
  /\ gatewayCalls' = gatewayCalls + 1
  /\ prompt' = request

\* processCV: llmService.parseCV
ParseCV ==
  /\ Stage("parseCV", "evaluateCV",
           ProcessCVErrors(GatewayErrors(WrappedErrors, "Failed to parse CV - no response from LLM")))
  /\ GatewayCall(ParseCVPrompt)
  /\ response' = NoResponse
  /\ UNCHANGED <<envVars, storeVars, queueVars, active, isInitialized, ragVars, docVars,
                 cvEvaluation, projectEvaluation, historyVars>>

\* processCV: llmService.evaluateCV returns JSON.parse(response.text) as it is
EvaluateCV ==
  /\ Stage("evaluateCV", "parseProject",
           ProcessCVErrors(
             GatewayErrors(WrappedErrors, "Failed to evaluate CV - no response from LLM")
               \cup {JsonSyntaxError}))
  /\ IF pc' = "parseProject"
     THEN \E r \in CvEvaluationResponses : cvEvaluation' = r
     ELSE UNCHANGED cvEvaluation
  /\ GatewayCall(EvaluateCVPrompt)
  /\ response' = NoResponse
  /\ UNCHANGED <<envVars, storeVars, queueVars, active, isInitialized, ragVars, docVars,
                 projectEvaluation, historyVars>>

\* processProject: llmService.parseProjectReport
ParseProjectReport ==
  /\ Stage("parseProject", "evaluateProject",
           ProcessProjectErrors(
             GatewayErrors(WrappedErrors, "Failed to parse project report - no response from LLM")))
  /\ GatewayCall(ParseProjectReportPrompt)
  /\ response' = NoResponse
  /\ UNCHANGED <<envVars, storeVars, queueVars, active, isInitialized, ragVars, docVars,
                 cvEvaluation, projectEvaluation, historyVars>>

\* processProject: llmService.evaluateProjectReport returns the parsed JSON as it is
EvaluateProjectReport ==
  /\ Stage("evaluateProject", "summary",
           ProcessProjectErrors(
             GatewayErrors(WrappedErrors, "Failed to evaluate project case study - no response from LLM")
               \cup {JsonSyntaxError}))
  /\ IF pc' = "summary"
     THEN \E r \in ProjectEvaluationResponses : projectEvaluation' = r
     ELSE UNCHANGED projectEvaluation
  /\ GatewayCall(EvaluateProjectReportPrompt)
  /\ response' = NoResponse
  /\ UNCHANGED <<envVars, storeVars, queueVars, active, isInitialized, ragVars, docVars,
                 cvEvaluation, historyVars>>

\* llmService.generateFinalSummary
GenerateFinalSummary ==
  /\ Stage("summary", "save",
           GatewayErrors(RawErrors, "Failed to generate final summary - no response from LLM"))
  /\ GatewayCall(GenerateFinalSummaryPrompt)
  /\ response' = NoResponse
  /\ UNCHANGED <<envVars, storeVars, queueVars, active, isInitialized, ragVars, docVars,
                 cvEvaluation, projectEvaluation, historyVars>>

\* the positions at which the worker awaits an answer of the Gemini client
GatewayStages ==
  {"parseCV", "evaluateCV", "parseProject", "evaluateProject", "summary"}

\* a generateContent call that is never answered: no timeout is passed to the
\* client and none is raced against the call, so the await never returns
GatewayHang ==
  /\ pc \in GatewayStages
  /\ pc' = "hung"
  /\ response' = NoResponse
  /\ UNCHANGED <<envVars, prompt, storeVars, queueVars, active, isInitialized, ragVars, docVars,
                 localVars, historyVars, gatewayCalls>>

\* prisma.evaluationResult.create rejects a row whose required Float is
\* undefined, a second row for the same jobId and a row for a job that is gone
CreateErrors(jobId) ==
  (IF cvEvaluation.kind = "undefined" \/ projectEvaluation.kind = "undefined"
   THEN {Err(<<"Argument is missing">>)} ELSE {})
    \cup (IF jobId \in DOMAIN evaluationResult
          THEN {Err(<<"Unique constraint failed on the fields: (jobId)">>)}
          ELSE {})
    \cup (IF jobId \notin DOMAIN evaluationJob
          THEN {Err(<<"Foreign key constraint violated">>)}
          ELSE {})

\* saveEvaluationResults: create the row, or throw "Failed to save results"
SaveEvaluationResults ==
  /\ pc = "save"
  /\ \/ /\ CreateErrors(active) = {}
        /\ evaluationResult' =
             (active :> [cvMatchRate |-> cvEvaluation.value,
                         projectScore |-> projectEvaluation.value])
               @@ evaluationResult
        /\ resultCreates' = [resultCreates EXCEPT ![active] = @ + 1]
        /\ pc' = "complete"
        /\ UNCHANGED error
     \/ /\ \E e \in CreateErrors(active) \cup WrappedErrors :
             error' = Wrap("Failed to save results: ", e)
        /\ pc' = "catch"
        /\ UNCHANGED <<evaluationResult, resultCreates>>
  /\ response' = NoResponse
  /\ UNCHANGED <<envVars, prompt, evaluationJob, jobCount, queueVars, active, isInitialized,
                 ragVars, docVars, cvEvaluation, projectEvaluation,
                 invocations, dbFaults, gatewayCalls>>

\* updateJobStatus(jobId, COMPLETED), then return results
CompleteJob(dbOk) ==
  /\ pc = "complete"
  /\ WriteStatus(active, COMPLETED, Null, dbOk)
  /\ pc' = "return"
  /\ response' = NoResponse
  /\ UNCHANGED <<envVars, prompt, jobCount, evaluationResult, queueVars, active, isInitialized,
                 ragVars, docVars, localVars, invocations, resultCreates,
                 gatewayCalls>>

\* the catch block as it would be if it kept what the attempt had computed
\* (the partial results) before marking the job FAILED
CatchEvaluationSavesPartial(dbOk) ==
  /\ pc = "catch"
  /\ WriteStatus(active, FAILED, CatchMessage(error), dbOk)
  /\ evaluationResult' =
       (active :> [cvMatchRate |-> cvEvaluation.value,
                   projectScore |-> projectEvaluation.value])
         @@ evaluationResult
  /\ pc' = "workerCatch"
  /\ response' = NoResponse
  /\ UNCHANGED <<envVars, prompt, jobCount, queueVars, active, isInitialized, ragVars, docVars,
                 localVars, invocations, resultCreates, gatewayCalls>>

\* catch block of evaluateCandidate: updateJobStatus(jobId, FAILED, message),
\* then throw error
CatchEvaluation(dbOk) ==
  /\ pc = "catch"
  /\ WriteStatus(active, FAILED, CatchMessage(error), dbOk)
  /\ pc' = "workerCatch"
  /\ response' = NoResponse
  /\ UNCHANGED <<envVars, prompt, jobCount, evaluationResult, queueVars, active, isInitialized,
                 ragVars, docVars, localVars, invocations, resultCreates,
                 gatewayCalls>>

\* the processor returned: BullMQ moves the task to the completed set
WorkerReturn ==
  /\ pc = "return"
  /\ completedTasks' = completedTasks \cup {active}
  /\ pc' = "idle"
  /\ active' = 0
  /\ jobDocuments' = {}
  /\ cvEvaluation' = Undefined
  /\ projectEvaluation' = Undefined
  /\ gatewayCalls' = 0
  /\ prompt' = NoPrompt
  /\ response' = NoResponse
  /\ UNCHANGED <<envVars, storeVars, waiting, delayed, attemptsMade, failedTasks,
                 isInitialized, ragVars, relevantJob, error, historyVars>>

\* the strategy as it would be with backoff type "fixed"
BackoffFixed(attempts) == EXPONENTIAL_BACKOFF_DELAY

\* BullMQ's backoff strategy of type "exponential": the delay after the
\* failure of attempt number `attempts`
Backoff(attempts) == EXPONENTIAL_BACKOFF_DELAY * 2 ^ (attempts - 1)

\* catch block of the processor: throw new Error(userMessage); BullMQ counts
\* the failed attempt and delays the task for a retry while attempts remain
WorkerCatch ==
  /\ pc = "workerCatch"
  /\ attemptsMade' = [attemptsMade EXCEPT ![active] = @ + 1]
  /\ IF attemptsMade[active] + 1 < ATTEMPTS_RETRY
     THEN /\ delayed' = delayed \cup {active}
          /\ retryDelay' =
               [retryDelay EXCEPT ![active] = Backoff(attemptsMade'[active])]
          /\ UNCHANGED failedTasks
     ELSE /\ failedTasks' = failedTasks \cup {active}
          /\ UNCHANGED <<delayed, retryDelay>>
  /\ pc' = "idle"
  /\ active' = 0
  /\ jobDocuments' = {}
  /\ cvEvaluation' = Undefined
  /\ projectEvaluation' = Undefined
  /\ error' = NoError
  /\ gatewayCalls' = 0
  /\ prompt' = NoPrompt
  /\ response' = NoResponse
  /\ UNCHANGED <<storeVars, waiting, completedTasks, isInitialized, ragVars,
                 relevantJob, historyVars, documents, jobData, reply, crashes,
                 internalDocuments>>

(* ------------------------------------------------------------ operations *)
\* a job row, with its result, is deleted from the database out-of-band
DeleteJob ==
  /\ \E jobId \in DOMAIN evaluationJob :
       /\ evaluationJob' =
            [j \in DOMAIN evaluationJob \ {jobId} |-> evaluationJob[j]]
       /\ evaluationResult' =
            [j \in DOMAIN evaluationResult \ {jobId} |-> evaluationResult[j]]
  /\ response' = NoResponse
  /\ UNCHANGED <<envVars, prompt, jobCount, queueVars, pc, active, isInitialized, ragVars,
                 docVars, localVars, historyVars, gatewayCalls>>

\* the worker process dies while it holds a task and is started again: the
\* module state is gone, startWorker runs anew and BullMQ, which finds the
\* task stalled, moves it back to the wait list for the next dispatch
WorkerCrash ==
  /\ active # 0
  /\ crashes < MaxCrashes
  /\ crashes' = crashes + 1
  /\ waiting' = <<active>> \o waiting
  /\ pc' = "idle"
  /\ active' = 0
  /\ isInitialized' = FALSE
  /\ startup' = "init"
  /\ ingestIndex' = 0
  /\ jobDocuments' = {}
  /\ relevantJob' = NoJob
  /\ cvEvaluation' = Undefined
  /\ projectEvaluation' = Undefined
  /\ error' = NoError
  /\ gatewayCalls' = 0
  /\ prompt' = NoPrompt
  /\ response' = NoResponse
  /\ UNCHANGED <<storeVars, delayed, attemptsMade, completedTasks, failedTasks,
                 collection, ingestFaults, historyVars, documents, jobData,
                 reply, internalDocuments, retryDelay>>

\* the steps of the worker and of the queue, apart from the status writes
WorkerNext ==
  \/ Dequeue
  \/ Promote
  \/ Initialize
  \/ RetrieveJobDocuments
  \/ LoadCandidateDocuments
  \/ ParseCV
  \/ EvaluateCV
  \/ ParseProjectReport
  \/ EvaluateProjectReport
  \/ GenerateFinalSummary
  \/ SaveEvaluationResults
  \/ WorkerReturn
  \/ WorkerCatch

\* submissions and the worker, with status writes that may fail
Next ==
  \/ Submit(UsualRequest)
  \/ WorkerNext
  \/ \E dbOk \in DbOutcomes : EvaluateCandidate(dbOk)
  \/ \E dbOk \in DbOutcomes : CompleteJob(dbOk)
  \/ \E dbOk \in DbOutcomes : CatchEvaluation(dbOk)

Spec == Init /\ [][Next]_vars

\* submissions, the worker and polling clients, with a Job Store that is up
NextApi ==
  \/ Submit(UsualRequest)
  \/ GetResult
  \/ WorkerNext
  \/ EvaluateCandidate(TRUE)
  \/ CompleteJob(TRUE)
  \/ CatchEvaluation(TRUE)

SpecApi == Init /\ [][NextApi]_vars

\* a starting worker process: startWorker runs beside the worker, which
\* consumes tasks from the import of evaluation-worker.ts on
NextStartup ==
  \/ \E req \in Requests : jobCount < MaxStartupJobs /\ Submit(req)
  \/ StartWorker
  \/ WorkerNext
  \/ EvaluateCandidate(TRUE)
  \/ CompleteJob(TRUE)
  \/ CatchEvaluation(TRUE)

SpecStartup == InitStartup /\ [][NextStartup]_vars

\* submissions and the worker, with job rows deleted out-of-band
NextOps ==
  \/ Submit(UsualRequest)
  \/ DeleteJob
  \/ WorkerNext
  \/ EvaluateCandidate(TRUE)
  \/ CompleteJob(TRUE)
  \/ CatchEvaluation(TRUE)

SpecOps == Init /\ [][NextOps]_vars

\* submissions and a worker process that may die and be started again
NextCrash ==
  \/ jobCount < MaxCrashJobs /\ Submit(UsualRequest)
  \/ WorkerCrash
  \/ StartWorker
  \/ WorkerNext
  \/ EvaluateCandidate(TRUE)
  \/ CompleteJob(TRUE)
  \/ CatchEvaluation(TRUE)

SpecCrash == Init /\ [][NextCrash]_vars

\* a worker process that starts, over any of the directory trees, and is
\* started again when it died: ingestion runs once per start
NextIngest ==
  \/ jobCount < MaxCrashJobs /\ Submit(UsualRequest)
  \/ WorkerCrash
  \/ StartWorker
  \/ WorkerNext
  \/ EvaluateCandidate(TRUE)
  \/ CompleteJob(TRUE)
  \/ CatchEvaluation(TRUE)

SpecIngest == InitIngest /\ [][NextIngest]_vars

\* the steps of the processor, from the dequeue to its return or throw
Processor ==
  \/ Dequeue
  \/ Initialize
  \/ EvaluateCandidate(TRUE)
  \/ RetrieveJobDocuments
  \/ LoadCandidateDocuments
  \/ ParseCV
  \/ EvaluateCV
  \/ ParseProjectReport
  \/ EvaluateProjectReport
  \/ GenerateFinalSummary
  \/ SaveEvaluationResults
  \/ CompleteJob(TRUE)
  \/ CatchEvaluation(TRUE)
  \/ WorkerReturn
  \/ WorkerCatch

\* submissions and the worker, with Gemini calls that may never be answered
NextLive ==
  \/ Submit(UsualRequest)
  \/ GatewayHang
  \/ WorkerNext
  \/ EvaluateCandidate(TRUE)
  \/ CompleteJob(TRUE)
  \/ CatchEvaluation(TRUE)

\* the event loop runs every continuation that is ready, and the backoff
\* timer of a delayed task fires
SpecLive ==
  /\ Init
  /\ [][NextLive]_vars
  /\ WF_vars(Processor)
  /\ WF_vars(Promote)

(* ---------------------------------------------------------------- claims *)
Jobs == DOMAIN evaluationJob

StatusOf(jobId) == evaluationJob[jobId].status

HasResult(jobId) == jobId \in DOMAIN evaluationResult

\* C1: every change of a job's stored status is QUEUED -> PROCESSING,
\* PROCESSING -> COMPLETED or PROCESSING -> FAILED; a job stored as FAILED or
\* COMPLETED is never written back to PROCESSING.
C1_StatusTransitions ==
  [][\A j \in Jobs :
       LET old == evaluationJob[j].status
           new == evaluationJob'[j].status
       IN old # new =>
            <<old, new>> \in {<<QUEUED, PROCESSING>>, <<PROCESSING, COMPLETED>>,
                              <<PROCESSING, FAILED>>}]_vars

\* C2: the stored status turns PROCESSING once, in the first invocation of
\* the orchestrator, and then stays PROCESSING until the final success or
\* the failure of the last attempt the queue allows.
C2_ProcessingOnce ==
  [][\A j \in Jobs :
       LET old == evaluationJob[j].status
           new == evaluationJob'[j].status
       IN /\ (old # PROCESSING /\ new = PROCESSING) => invocations[j] = 0
          /\ (old = PROCESSING /\ new # PROCESSING) =>
               \/ new = COMPLETED
               \/ new = FAILED /\ attemptsMade[j] + 1 = ATTEMPTS_RETRY]_vars

\* C3: the orchestrator is invoked at most ATTEMPTS_RETRY times for a job,
\* and the stored status is FAILED only once the ATTEMPTS_RETRY-th
\* invocation has failed, never after an earlier one.
C3_RetryBound ==
  \A j \in Jobs :
    /\ invocations[j] <= ATTEMPTS_RETRY
    /\ StatusOf(j) = FAILED => invocations[j] = ATTEMPTS_RETRY

\* C4: in every reachable state, the states between two steps of
\* evaluateCandidate included, a job has a result row if and only if its
\* stored status is COMPLETED.
C4_ResultIffCompleted ==
  \A j \in Jobs : HasResult(j) <=> StatusOf(j) = COMPLETED

CvMatchRateDomain == 0..10
ProjectScoreDomain == 10..50

\* C6: every job stored as COMPLETED has a result whose CV match rate is in
\* [0,1] and whose project score is in [1,5], whatever the model returned.
C6_ScoresInDomain ==
  \A j \in Jobs :
    StatusOf(j) = COMPLETED =>
      /\ HasResult(j)
      /\ evaluationResult[j].cvMatchRate \in CvMatchRateDomain
      /\ evaluationResult[j].projectScore \in ProjectScoreDomain

\* C7: the retry counter of a job counts its failed attempts: a job that
\* completed after k-1 failed attempts has a retry count of at least k-1.
C7_RetryCountObservable ==
  \A j \in Jobs :
    StatusOf(j) = COMPLETED => evaluationJob[j].retryCount >= attemptsMade[j]

\* C8: a job stored as FAILED has a non-null, non-empty error message.
C8_FailedHasMessage ==
  \A j \in Jobs :
    StatusOf(j) = FAILED =>
      /\ ~evaluationJob[j].errorMessage.isNull
      /\ Len(evaluationJob[j].errorMessage.text) > 0

\* C9: when an attempt has stored FAILED, the text of the stored error
\* message is the worker's classified user-facing sentence for the error
\* that ended the attempt, not the raw text of that error.
C9_StoredMessageIsClassified ==
  \A j \in Jobs :
    (pc = "workerCatch" /\ active = j /\ StatusOf(j) = FAILED) =>
      evaluationJob[j].errorMessage.text = UserMessage(error)

\* C10: GET /result answers the job's current status; with the full result
\* when the job is COMPLETED, with the error message when it is FAILED, and
\* with the status only when it is QUEUED or PROCESSING.
C10_GetStatusPayload ==
  response # NoResponse =>
    LET j == response.jobId IN
      /\ response.status = StatusOf(j)
      /\ StatusOf(j) = COMPLETED =>
           /\ ~response.result.isNull
           /\ response.result.cv_match_rate = evaluationResult[j].cvMatchRate
           /\ response.result.project_score = evaluationResult[j].projectScore
      /\ StatusOf(j) = FAILED =>
           /\ "error" \in DOMAIN response
           /\ response.error = evaluationJob[j].errorMessage
      /\ StatusOf(j) \in {QUEUED, PROCESSING} => response.result.isNull

\* the worker has never taken the job's task
NotPickedUp(jobId) ==
  /\ attemptsMade[jobId] = 0
  /\ active # jobId
  /\ jobId \notin completedTasks

\* C11: a GET /result answer for a job the worker has not picked up yet has
\* status QUEUED, a null result and no error, whatever the other jobs do.
C11_QueuedBeforePickup ==
  \A j \in Jobs :
    (response # NoResponse /\ response.jobId = j /\ NotPickedUp(j)) =>
      /\ response.status = QUEUED
      /\ response.result.isNull
      /\ "error" \notin DOMAIN response
      /\ evaluationJob[j].errorMessage.isNull

\* C11 witness: a job that waits is polled while the worker processes another
\* job.
C11_Witness ==
  \E j \in Jobs :
    /\ response # NoResponse
    /\ response.jobId = j
    /\ response.status = QUEUED
    /\ NotPickedUp(j)
    /\ active # 0

NoDocumentFound(kind) == Err(<<"No ", kind, " found for job title: ">>)

\* C13: an attempt makes a Model Gateway call only after retrieval returned
\* all three reference documents; an attempt that ends on a missing reference
\* document of a resolved job title has made no Model Gateway call.
C13_MissingDocumentFailsFast ==
  /\ gatewayCalls > 0 =>
       {d.documentType : d \in jobDocuments} = DocumentTypes
  /\ \A kind \in DocumentTypes :
       (pc \in {"catch", "workerCatch"} /\ error = NoDocumentFound(kind)) =>
         gatewayCalls = 0 /\ jobDocuments = {}

\* C13 witness: an attempt has failed on the missing scoring rubric of a job
\* title whose job description is in the collection.
C13_Witness ==
  /\ pc = "workerCatch"
  /\ error = NoDocumentFound("scoring_rubric")
  /\ gatewayCalls = 0
  /\ \E d \in collection : d.documentType = "job_description"
         /\ MissingTypes(d.jobTitle) = {"scoring_rubric"}

\* C14: the documents retrieveJobDocuments returns are one of each type, all
\* of them documents of the collection whose job title is the resolved one.
C14_DocumentsOfResolvedJob ==
  [][(pc = "fetch" /\ pc' = "load") =>
       /\ jobDocuments' \subseteq collection
       /\ \A d \in jobDocuments' : d.jobTitle = relevantJob
       /\ \A type \in DocumentTypes :
            Cardinality({d \in jobDocuments' : d.documentType = type}) = 1]_vars

\* C14 witness: documents were retrieved from a collection that also holds
\* documents of another job title.
C14_Witness ==
  /\ pc = "load"
  /\ jobDocuments # {}
  /\ \E d \in collection : \A e \in jobDocuments : d.jobTitle # e.jobTitle

\* C15: the worker holds at most one task; it takes a task only when it holds
\* none, and it lets go of a task only when the processor returns or throws.
C15_OneTaskInFlight ==
  [][/\ (active = 0) <=> (pc = "idle")
     /\ active' # active =>
          \/ active = 0 /\ pc = "idle" /\ pc' = "start"
          \/ active' = 0 /\ pc \in {"return", "workerCatch"}]_vars

\* C15 witness: a retried task is being processed while another task waits.
C15_Witness ==
  /\ active # 0
  /\ attemptsMade[active] > 0
  /\ Len(waiting) > 0
  /\ pc = "parseCV"

\* C16: no task is being processed while startWorker has not finished the
\* initialization of the Document Store Gateway and the ingestion.
C16_IngestedBeforeFirstTask ==
  active # 0 => startup \notin {"init", "ingest"}

\* the errors the spec calls retrieval errors: the job title does not resolve,
\* or a reference document of the resolved title is missing
RetrievalErrors ==
  {NoRelevantJobFound}
    \cup {NoDocumentFound(kind) : kind \in DocumentTypes}

\* C17: a task whose attempt ended on a retrieval error is not scheduled for
\* another attempt.
C17_RetrievalErrorNotRetried ==
  [][(pc = "workerCatch" /\ error \in RetrievalErrors /\ pc' = "idle") =>
       /\ active \notin delayed'
       /\ invocations[active] = 1]_vars

\* C18: the job of a task whose attempts are exhausted is stored as FAILED.
C18_ExhaustedIsFailed ==
  \A j \in failedTasks : j \in Jobs => StatusOf(j) = FAILED

\* C19: a job stored as PROCESSING is eventually stored as COMPLETED or
\* FAILED, whatever the Model Gateway does.
C19_ProcessingEnds ==
  \A j \in JobIds :
    (j \in Jobs /\ StatusOf(j) = PROCESSING)
      ~> (j \in Jobs /\ StatusOf(j) \in {COMPLETED, FAILED})

\* where the processor goes on after each call of updateJobStatus
AfterStatusWrite ==
  [evaluate |-> "retrieve", complete |-> "return", catch |-> "workerCatch"]

\* C20: a status write for a job whose row is gone changes no row of the Job
\* Store and raises nothing: the processor goes on where it goes on after a
\* write that found the row.
C20_MissingRowWriteIsNoOp ==
  [][(pc \in DOMAIN AfterStatusWrite /\ active \notin Jobs /\ pc' # pc) =>
       /\ UNCHANGED <<evaluationJob, evaluationResult>>
       /\ pc' = AfterStatusWrite[pc]
       /\ active' = active]_vars

\* C20 witness: the catch block has written FAILED for a job whose row was
\* already gone when the result was saved, and another task waits.
C20_Witness ==
  /\ pc = "workerCatch"
  /\ active \notin Jobs
  /\ Includes(error.message, "Foreign key constraint violated")
  /\ Len(waiting) > 0

\* C21: a task the worker has reported to the queue as completed belongs to a
\* job whose COMPLETED write was done: its row, when it exists, is stored as
\* COMPLETED.
C21_CompletedTaskIsStoredCompleted ==
  \A j \in completedTasks : j \in Jobs => StatusOf(j) = COMPLETED

\* C22: a result row is created for a job only while the job is stored as
\* PROCESSING.
C22_ResultOnlyWhileProcessing ==
  [][\A j \in JobIds :
       resultCreates'[j] > resultCreates[j] =>
         j \in Jobs /\ StatusOf(j) = PROCESSING]_vars

\* C23: once a job is stored as COMPLETED, no step changes its row or its
\* result row.
C23_CompletedIsFinal ==
  [][\A j \in Jobs :
       StatusOf(j) = COMPLETED =>
         /\ j \in DOMAIN evaluationJob'
         /\ evaluationJob'[j] = evaluationJob[j]
         /\ HasResult(j) =>
              /\ j \in DOMAIN evaluationResult'
              /\ evaluationResult'[j] = evaluationResult[j]]_vars

\* the request is one POST /evaluate is to accept: the title and both ids are
\* non-empty and both ids are rows of prisma.document
Acceptable(req) ==
  /\ req.job_title # ""
  /\ req.cv_document_id # ""
  /\ req.report_document_id # ""
  /\ {req.cv_document_id, req.report_document_id} \subseteq DOMAIN documents

\* C24: POST /evaluate creates a QUEUED job row exactly for the requests whose
\* title and ids are non-empty and whose two documents exist; any other
\* request is answered 400 or 404, creates no job row and enqueues no task.
C24_SubmitValidates ==
  [][/\ reply' # reply =>
          IF Acceptable(reply'.request)
          THEN /\ jobCount' = jobCount + 1
               /\ DOMAIN evaluationJob' = DOMAIN evaluationJob \cup {jobCount'}
               /\ evaluationJob'[jobCount'].status = QUEUED
               /\ reply'.code \in {202, 500}
          ELSE /\ reply'.code \in {400, 404}
               /\ UNCHANGED <<evaluationJob, jobCount, waiting, delayed, jobData>>
     /\ DOMAIN evaluationJob' # DOMAIN evaluationJob =>
          /\ Acceptable(reply'.request)
          /\ reply'.code \in {202, 500}
          /\ DOMAIN evaluationJob' = DOMAIN evaluationJob \cup {jobCount'}
          /\ evaluationJob'[jobCount'].status = QUEUED
     /\ \A j \in DOMAIN jobData' \ DOMAIN jobData :
          reply'.jobId = j /\ Acceptable(jobData'[j])]_vars

\* C24 witness: a request that names an uploaded CV and a project report that
\* was never uploaded has been answered 404, and nothing is stored or queued.
C24_Witness ==
  /\ reply.code = 404
  /\ reply.request.job_title # ""
  /\ reply.request.cv_document_id \in DOMAIN documents
  /\ reply.request.report_document_id = "report"
  /\ "report" \notin DOMAIN documents
  /\ evaluationJob = << >>
  /\ waiting = << >>

\* the result write of the attempt was rejected because the job already has a
\* result row
DuplicateResult ==
  Wrap("Failed to save results: ",
       Err(<<"Unique constraint failed on the fields: (jobId)">>))

\* C25: the task of a worker that died is processed again and its job ends
\* COMPLETED with one result wherever the worker died: the re-run's result
\* write is never rejected because the interrupted run had written the result.
C25_RerunAfterCrashCompletes ==
  (crashes > 0 /\ pc \in {"catch", "workerCatch"}) => error # DuplicateResult

\* C26: a Model Gateway call is made for a task only when the extracted text
\* of both of its candidate documents has the minimum length.
C26_ShortTextRejected ==
  (active \in DOMAIN jobData /\ gatewayCalls > 0) =>
    /\ ExtractTextFromPDF(jobData[active].cv_document_id) >= MIN_TEXT_LENGTH
    /\ ExtractTextFromPDF(jobData[active].report_document_id) >= MIN_TEXT_LENGTH

\* C27 as stated: for an empty or white-space query, and for a collection
\* without a match, searchRelevantJob returns not-found, which its caller
\* reports as "No relevant job found"; it throws only for a store that is
\* unavailable.
C27_BlankQueryIsNotFound ==
  [][(pc = "retrieve" /\ pc' # pc
        /\ (Blank(jobData[active].job_title) \/ collection = {})) =>
       /\ pc' = "catch"
       /\ error' \in {NoRelevantJobFound} \cup StoreUnavailable]_vars

\* C27: searchRelevantJob throws "Search query cannot be empty" for an empty
\* or white-space query; for any other query it returns not-found when the
\* collection has no match and a job title of the collection when it has one,
\* and it throws otherwise only for a store that is unavailable.
C27_BlankQueryThrows ==
  [][(pc = "retrieve" /\ pc' # pc) =>
       IF Blank(jobData[active].job_title)
       THEN pc' = "catch" /\ error' = EmptyQueryError
       ELSE IF collection = {}
       THEN pc' = "catch" /\ error' \in {NoRelevantJobFound} \cup StoreUnavailable
       ELSE \/ /\ pc' = "fetch"
               /\ \E d \in collection : relevantJob' = d.jobTitle
            \/ pc' = "catch" /\ error' \in StoreUnavailable]_vars

\* C27 witness: the attempt of a job submitted with a white-space title has
\* failed on the empty-query error.
C27_Witness ==
  /\ pc = "catch"
  /\ active \in DOMAIN jobData
  /\ jobData[active].job_title = " "
  /\ error = EmptyQueryError

\* C28: the error for a missing reference document of a resolved job title
\* names the missing kind, differs from the job-not-found error, and the
\* worker's message for it is the one of its "not found" class.
C28_MissingDocumentClassified ==
  \A kind \in DocumentTypes :
    (pc = "workerCatch" /\ error = NoDocumentFound(kind)) =>
      /\ Includes(error.message, kind)
      /\ error # NoRelevantJobFound
      /\ UserMessage(error) =
           <<"Document or job configuration ", "not found", ": ">>
             \o error.message

C31_OneDocumentPerKind ==
  \A d \in collection : \A e \in collection :
    (d.jobTitle = e.jobTitle /\ d.documentType = e.documentType) => d = e

\* C31 witness: a run has gone without an error through two files of the same
\* normalized job title and document type; the collection holds the first.
C31_Witness ==
  /\ startup = "done"
  /\ ingestIndex = Len(internalDocuments)
  /\ ingestFaults = 0
  /\ \E i \in DOMAIN internalDocuments : \E k \in DOMAIN internalDocuments :
       /\ i < k
       /\ Record(internalDocuments[i]) \in collection
       /\ Record(internalDocuments[k]) \notin collection
       /\ Record(internalDocuments[k]).jobTitle
            = Record(internalDocuments[i]).jobTitle
       /\ Record(internalDocuments[k]).documentType
            = Record(internalDocuments[i]).documentType

ClassifiedSentences ==
  {<<"Evaluation timed out. Please try again.">>,
   <<"API rate limit reached. Please try again later.">>,
   <<"Model is currently overloaded. Please try again later.">>,
   <<"Document or job configuration ", "not found">>,
   <<"Invalid document">>}

\* C33: the message of every failure the processor reports to the queue is
\* the fixed sentence of one of the failure classes: it is no generic
\* message and it carries no text of the error that was caught.
C33_MessageIsClassifiedSentence ==
  pc = "workerCatch" => UserMessage(error) \in ClassifiedSentences

\* the statements of evaluateCandidate's try block, in their order
StageOrder ==
  <<"retrieve", "fetch", "load", "parseCV", "evaluateCV", "parseProject",
    "evaluateProject", "summary", "save", "complete">>

\* the position of a stage in StageOrder
StageIndex(stage) == CHOOSE i \in DOMAIN StageOrder : StageOrder[i] = stage

\* the Model Gateway calls an attempt has made when it is at a stage
CallsBefore(stage) ==
  IF StageIndex(stage) <= StageIndex("parseCV") THEN 0
  ELSE IF StageIndex(stage) >= StageIndex("save")
  THEN Cardinality(GatewayStages)
  ELSE StageIndex(stage) - StageIndex("parseCV")

\* C34: within an attempt the stages run in the order retrieve, load, parse
\* CV, evaluate CV, parse project, evaluate project, summary, save: a stage
\* is left either for the next one, without an error, or for the catch block,
\* and the catch block is left for the processor's catch; each stage is
\* reached with every Model Gateway call before it made once.
C34_StagesInOrder ==
  [][/\ \A i \in 1..(Len(StageOrder) - 1) :
          (pc = StageOrder[i] /\ pc' # pc) =>
            \/ pc' = StageOrder[i + 1] /\ error' = NoError /\ active' = active
            \/ pc' = "catch" /\ error' # NoError /\ active' = active
     /\ (pc = "catch" /\ pc' # pc) => pc' = "workerCatch"
     /\ \A i \in DOMAIN StageOrder :
          pc' = StageOrder[i] => gatewayCalls' = CallsBefore(StageOrder[i])]_vars

\* C34 witness: an attempt has failed at the parse of the project report,
\* after the CV was evaluated.
C34_Witness ==
  /\ pc = "catch"
  /\ gatewayCalls = CallsBefore("evaluateProject")
  /\ cvEvaluation.kind = "number"
  /\ projectEvaluation = Undefined

\* the values buildPrompt put into the contents of a request
Sent(request) ==
  {request.contents[i].value :
     i \in {k \in DOMAIN request.contents : request.contents[k].kind = "value"}}

\* C35: every variable a stage passes to buildPrompt appears in the prompt
\* that is sent to the Model Gateway: the parse-project request contains the
\* raw text of the candidate's project report, as the parse-CV request
\* contains the raw text of the CV.
C35_VariablesAreSent ==
  /\ \A key \in DOMAIN prompt.variables : prompt.variables[key] \in Sent(prompt)
  /\ gatewayCalls = CallsBefore("evaluateCV") =>
       CandidateText(jobData[active].cv_document_id) \in Sent(prompt)
  /\ gatewayCalls = CallsBefore("evaluateProject") =>
       CandidateText(jobData[active].report_document_id) \in Sent(prompt)

\* the raw texts of the candidate's documents and of the reference documents
RawTexts == DOMAIN documents \cup DocumentTypes

\* C36: the synthesize-summary request is built only from the CV match rate,
\* the CV feedback, the project score and the project feedback of the same
\* attempt and the job title: it holds no raw candidate text and no reference
\* document.
C36_SummaryFromEvaluationsOnly ==
  gatewayCalls = Cardinality(GatewayStages) =>
    /\ Sent(prompt) =
         {String(cvEvaluation), "cvFeedback", String(projectEvaluation),
          "projectFeedback", jobData[active].job_title}
    /\ Sent(prompt) \cap RawTexts = {}
    /\ \A i \in DOMAIN prompt.contents : prompt.contents[i].kind # "slot"

\* C36 witness: the summary request was sent after both evaluations of the
\* attempt returned numbers, and the requests before it held the raw texts.
C36_Witness ==
  /\ pc = "save"
  /\ gatewayCalls = Cardinality(GatewayStages)
  /\ cvEvaluation.kind = "number"
  /\ projectEvaluation.kind = "number"
  /\ String(cvEvaluation) \in Sent(prompt)
  /\ CandidateText(jobData[active].cv_document_id) \in RawTexts

\* the row and the result of a job are after the step what they were before
RowKept(j) ==
  /\ j \in DOMAIN evaluationJob'
  /\ evaluationJob'[j] = evaluationJob[j]
  /\ (j \in DOMAIN evaluationResult') = (j \in DOMAIN evaluationResult)
  /\ j \in DOMAIN evaluationResult => evaluationResult'[j] = evaluationResult[j]

\* C37: a step of the worker changes the row and the result of no job other
\* than the one whose task it processes, and neither POST /evaluate nor
\* GET /result changes the row or the result of an existing job.
C37_OnlyOwnRowWritten ==
  [][/\ \A j \in DOMAIN evaluationJob \ {active} : RowKept(j)
     /\ (DOMAIN evaluationJob' # DOMAIN evaluationJob \/ reply' # reply
           \/ response' # NoResponse) =>
          \A j \in DOMAIN evaluationJob : RowKept(j)]_vars

\* C37 witness: the task of job 1 was processed to the end while job 2 was
\* in the store, and the row of job 2 is as the submission created it.
C37_Witness ==
  /\ DOMAIN evaluationJob = {1, 2}
  /\ evaluationJob[1].status = COMPLETED
  /\ 1 \in DOMAIN evaluationResult
  /\ evaluationJob[2] = NewJob
  /\ 2 \notin DOMAIN evaluationResult
  /\ \E i \in DOMAIN waiting : waiting[i] = 2

\* the job ids whose task is in the wait list, delayed for a retry or held
\* by the worker
Tasks ==
  {waiting[i] : i \in DOMAIN waiting} \cup delayed \cup ({active} \ {0})

\* C38: every job row in status QUEUED has a task of its job id waiting in
\* the queue or in flight: a submission whose enqueue fails leaves no row that
\* stays QUEUED with no task.
C38_QueuedRowHasTask ==
  \A j \in DOMAIN evaluationJob : evaluationJob[j].status = QUEUED => j \in Tasks

\* C39: the stored error message of a job is non-null only if its status is
\* FAILED: every write of PROCESSING or COMPLETED clears the message, so the
\* row of a job that failed an attempt and was then written COMPLETED on a
\* retry holds no error message.
C39_MessageOnlyIfFailed ==
  \A j \in DOMAIN evaluationJob :
    evaluationJob[j].errorMessage # Null => evaluationJob[j].status = FAILED

\* C39 witness: the orchestrator ran twice for a job, the first run failed,
\* and the row is COMPLETED with no error message.
C39_Witness ==
  \E j \in DOMAIN evaluationJob :
    /\ invocations[j] = 2
    /\ attemptsMade[j] >= 1
    /\ j \in completedTasks
    /\ evaluationJob[j].status = COMPLETED
    /\ evaluationJob[j].errorMessage = Null

\* the positions of the processor inside evaluationService.evaluateCandidate
InOrchestrator == {StageOrder[i] : i \in DOMAIN StageOrder} \cup {"catch"}

\* C40: no invocation of the orchestrator starts in a worker process before
\* evaluationService.initialize has completed successfully in that process;
\* within a process the flag, once set, stays set, so initialize succeeds at
\* most once; an attempt that finds the flag unset calls initialize, and when
\* the call fails the attempt fails with the flag still unset, for the next
\* attempt to call it again.
C40_InitializedBeforeInvocation ==
  [][/\ (pc' \in InOrchestrator \/ invocations' # invocations) => isInitialized'
     /\ invocations' # invocations => isInitialized
     /\ (isInitialized /\ crashes' = crashes) => isInitialized'
     /\ (pc = "start" /\ pc' # pc /\ crashes' = crashes) =>
          \/ pc' = "evaluate" /\ isInitialized' /\ error' = NoError
          \/ /\ pc' = "workerCatch"
             /\ ~isInitialized /\ ~isInitialized'
             /\ error' # NoError]_vars

\* C40 witness: the first attempt of a task failed in initialize, a later
\* attempt initialized the process and the orchestrator runs for the first
\* time.
C40_Witness ==
  /\ pc = "retrieve"
  /\ isInitialized
  /\ attemptsMade[active] >= 1
  /\ invocations[active] = 1

====
